---- MODULE Spec2Model ----
(***************************************************************************)
(* The permission check engine of internal/services/permissionService.go:  *)
(* Check, the dispatcher (c, checkRewrite, checkLeaf, set), the union and  *)
(* intersection combinators and the leaf resolver (check, getUsers).       *)
(*                                                                         *)
(* Every goroutine the engine starts is a task, named by its path: <<>> is *)
(* the caller's goroutine running Check, <<1>> the root task, p \o <<k>>   *)
(* the k-th function launched by the combinator that task p runs.          *)
(***************************************************************************)
EXTENDS Integers, Sequences, FiniteSets, TLC

VARIABLES
    input,      \* the arguments of Check and the collaborators: a, o, s, d, store, faulty
    depth,      \* *re.depth, the one counter every task of the call shares
    tasks,      \* path -> goroutine state
    canceled,   \* the caller's ctx is done
    returned,   \* Check has returned
    result,     \* what Check returned: (can, err)
    queries,    \* number of QueryTuples calls made so far (history)
    early       \* the caller's ctx was done before the root task reported (history)

vars == <<input, depth, tasks, canceled, returned, result, queries, early>>

-----------------------------------------------------------------------------
(* Bounds of the model *)

\* largest maxDepth argument tried
MaxDepth == 2

\* longest task path: a leaf resolution at a path this long starts no recursion
MaxPath == 4

-----------------------------------------------------------------------------
(* Decisions and errors *)

Nil == "nil"
DepthError == "depth error"
CanceledError == "canceled error"
ActionCannotFoundError == "action cannot found"
UndefinedChildTypeError == "undefined child type"
UndefinedChildKindError == "undefined child kind"
\* an error of the tuple store (repositories.IRelationTupleRepository.QueryTuples)
StoreError == "store error"

sendDecision(can, err) == [Can |-> can, Err |-> err]

-----------------------------------------------------------------------------
(* pkg/tuple: objects, relations, users *)

Object(ns, id) == [Namespace |-> ns, ID |-> id]
NoObject == Object("", "")

\* a relation name is the sequence of its dot-separated components
Split(relation) == relation

ELLIPSIS == "..."

\* tuple.User{ID: id}
UserID(id) == [ID |-> id, UserSet |-> [Object |-> NoObject, Relation |-> <<>>]]
\* tuple.User{UserSet: {Object, Relation}}
UserSetOf(object, relation) == [ID |-> "", UserSet |-> [Object |-> object, Relation |-> relation]]

IsUser(u) == u.ID # ""

Equals(u, v) ==
    IF IsUser(u) /\ IsUser(v)
    THEN u.ID = v.ID
    ELSE /\ ~IsUser(u) /\ ~IsUser(v)
         /\ u.UserSet.Object = v.UserSet.Object
         /\ u.UserSet.Relation = v.UserSet.Relation

-----------------------------------------------------------------------------
(* entities.RelationTuple and the tuple store *)

\* object (Entity, ObjectID) has Relation satisfied by the literal subject id
Grant(ns, id, rel, subject) ==
    [Entity |-> ns, ObjectID |-> id, Relation |-> rel,
     UsersetEntity |-> "", UsersetObjectID |-> subject, UsersetRelation |-> ""]

\* object (Entity, ObjectID) has Relation satisfied by the userset uns:uid#urel
Edge(ns, id, rel, uns, uid, urel) ==
    [Entity |-> ns, ObjectID |-> id, Relation |-> rel,
     UsersetEntity |-> uns, UsersetObjectID |-> uid, UsersetRelation |-> urel]

QueryTuples(store, ns, id, rel) ==
    SelectSeq(store, LAMBDA e : e.Entity = ns /\ e.ObjectID = id /\ e.Relation = rel)

toUser(entity, r) ==
    IF entity.UsersetEntity # ""
    THEN UserSetOf(Object(entity.UsersetEntity, entity.UsersetObjectID),
                   IF entity.UsersetRelation = ELLIPSIS
                   THEN <<r[2]>>
                   ELSE <<entity.UsersetRelation>>)
    ELSE UserID(entity.UsersetObjectID)

getUsers(store, object, relation) ==
    LET r  == Split(relation)
        en == QueryTuples(store, object.Namespace, object.ID, r[1])
    IN  [k \in 1..Len(en) |-> toUser(en[k], r)]

-----------------------------------------------------------------------------
(* pkg/dsl/schema: rule nodes *)

RewriteKind == "rewrite"
LeafKind == "leaf"
Union == "union"
Intersection == "intersection"
TupleToUserSetType == "tupleToUserSet"
ComputedUserSetType == "computedUserSet"

Leaf(type, value) == [Kind |-> LeafKind, Type |-> type, Value |-> value, Children |-> <<>>]
Rewrite(type, children) == [Kind |-> RewriteKind, Type |-> type, Value |-> <<>>, Children |-> children]

-----------------------------------------------------------------------------
(* CheckFunction values: what the dispatcher compiles a rule node into *)

\* the closure returned by check(ctx, object, relation, re)
check(object, relation) ==
    [kind |-> "check", object |-> object, relation |-> relation,
     combiner |-> "", functions |-> <<>>, err |-> Nil]

\* the closure returned by fail(err)
fail(err) ==
    [kind |-> "fail", object |-> NoObject, relation |-> <<>>,
     combiner |-> "", functions |-> <<>>, err |-> err]

\* the closure returned at the end of set: resultChan <- combiner(ctx, functions)
setClosure(combiner, functions) ==
    [kind |-> "set", object |-> NoObject, relation |-> <<>>,
     combiner |-> combiner, functions |-> functions, err |-> Nil]

\* a checkLeaf that resolves a leaf of any type
checkLeafAny(object, child) == check(object, child.Value)

checkLeaf(object, child) ==
    IF child.Type \in {TupleToUserSetType, ComputedUserSetType}
    THEN check(object, child.Value)
    ELSE fail(UndefinedChildTypeError)

RECURSIVE checkRewrite(_, _)
RECURSIVE set(_, _, _)

set(object, children, combiner) ==
    IF \E k \in 1..Len(children) : children[k].Kind \notin {RewriteKind, LeafKind}
    THEN fail(UndefinedChildKindError)
    ELSE setClosure(combiner,
            [k \in 1..Len(children) |->
                IF children[k].Kind = RewriteKind
                THEN checkRewrite(object, children[k])
                ELSE checkLeaf(object, children[k])])

checkRewrite(object, child) ==
    IF child.Type = Union THEN set(object, child.Children, Union)
    ELSE IF child.Type = Intersection THEN set(object, child.Children, Intersection)
    ELSE fail(UndefinedChildTypeError)

-----------------------------------------------------------------------------
(* The schema and the stores the model is run on *)

Viewer == Leaf(ComputedUserSetType, <<"viewer">>)
Owner == Leaf(ComputedUserSetType, <<"owner">>)
Editor == Leaf(ComputedUserSetType, <<"editor">>)
ParentView == Leaf(TupleToUserSetType, <<"parent", "view">>)

\* a node whose GetKind() is neither RewriteKind nor LeafKind
Corrupt == [Kind |-> "", Type |-> "", Value |-> <<>>, Children |-> <<>>]

\* service.schema.Entities["doc"].Actions
Actions ==
    << [Name |-> "view", Child |-> Rewrite(Union, <<Owner, ParentView>>)],
       [Name |-> "edit", Child |-> Rewrite(Intersection, <<Owner, Editor>>)],
       [Name |-> "view_via_viewer", Child |-> Viewer],
       [Name |-> "wrapped", Child |-> Rewrite(Union, <<Viewer>>)],
       [Name |-> "guarded", Child |-> Rewrite(Intersection, <<Viewer, Rewrite(Union, <<>>)>>)],
       [Name |-> "either", Child |-> Rewrite(Union, <<Rewrite(Intersection, <<>>), Viewer>>)],
       [Name |-> "nobody", Child |-> Rewrite(Union, <<>>)],
       [Name |-> "never", Child |-> Rewrite(Intersection, <<>>)],
       [Name |-> "broken", Child |-> Rewrite(Union, <<Leaf("", <<"viewer">>), Viewer>>)],
       [Name |-> "brokenboth", Child |-> Rewrite(Intersection, <<Leaf("", <<"viewer">>), Viewer>>)],
       [Name |-> "exclude", Child |-> Rewrite("exclusion", <<Viewer>>)],
       [Name |-> "corrupt", Child |-> Corrupt],
       [Name |-> "badchild", Child |-> Rewrite(Union, <<Viewer, Corrupt>>)],
       [Name |-> "mixed", Child |-> Rewrite(Intersection, <<Rewrite(Union, <<Owner, Editor>>), Viewer>>)] >>

\* service.schema.Entities[namespace].Actions: the entity group declares no
\* action, and a namespace the schema does not know yields the zero Entity
Entities(namespace) == IF namespace = "doc" THEN Actions ELSE <<>>

\* the names of the actions of the entity of the object of the call
ActionNames ==
    LET actions == Entities(input.o.Namespace)
    IN  {actions[k].Name : k \in 1..Len(actions)}

Doc1 == Object("doc", "1")

\* the facts a store may hold for (doc:1, viewer), in every order
ViewerPool ==
    { Grant("doc", "1", "viewer", "alice"),
      Grant("doc", "1", "viewer", "bob"),
      Edge("doc", "1", "viewer", "group", "g1", "member") }

NoRepeat(seq) == \A i, j \in 1..Len(seq) : i # j => seq[i] # seq[j]

ViewerFacts ==
    UNION { { seq \in [1..n -> ViewerPool] : NoRepeat(seq) } : n \in 0..Cardinality(ViewerPool) }

\* the facts a store may hold for (group:g1, member)
MemberFacts ==
    { <<>>,
      << Grant("group", "g1", "member", "alice") >>,
      << Edge("group", "g1", "member", "doc", "1", "viewer") >> }

ViewerStores == { v \o m : v \in ViewerFacts, m \in MemberFacts }

\* the userset edge alone, and before or after a grant
EdgeStores == { st \in ViewerStores : Len(st) = 2 /\ st[1].UsersetEntity # "" }

\* those, the empty store and the store of one grant
FewStores == EdgeStores \cup { <<>>, << Grant("doc", "1", "viewer", "alice") >> }

OwnerStores ==
    { << Grant("doc", "1", "owner", "alice") >>,
      << Grant("doc", "1", "owner", "alice"), Grant("doc", "1", "editor", "alice") >>,
      << Grant("doc", "1", "owner", "bob"),
         Edge("doc", "1", "parent", "folder", "f1", ELLIPSIS),
         Grant("folder", "f1", "view", "alice") >> }

\* facts for owner, editor and viewer of doc:1, none of them a userset edge
LiteralStores ==
    { <<>>,
      << Grant("doc", "1", "viewer", "alice") >>,
      << Grant("doc", "1", "editor", "alice"), Grant("doc", "1", "viewer", "alice") >>,
      << Grant("doc", "1", "owner", "bob"), Grant("doc", "1", "viewer", "alice") >>,
      << Grant("doc", "1", "owner", "alice"), Grant("doc", "1", "viewer", "bob"),
         Grant("doc", "1", "viewer", "alice") >> }

\* doc:1#viewer is group:g1#member, which is folder:f1#view, which alice has
ChainOfTwo ==
    << Edge("doc", "1", "viewer", "group", "g1", "member"),
       Edge("group", "g1", "member", "folder", "f1", "view"),
       Grant("folder", "f1", "view", "alice") >>

Group1 == Object("group", "g1")

Subjects == { UserID("alice"), UserID("bob") }

\* the calls the model makes: Check(ctx, s, a, "doc:1", d) on a service built
\* over the schema and a store, which may be one that fails queries
Inputs ==
    [ a : {"view_via_viewer"},
      o : {Doc1}, s : {UserID("alice")}, d : 0..MaxDepth,
      store : ViewerStores, faulty : {FALSE} ]
    \cup
    [ a : {"view_via_viewer"},
      o : {Doc1}, s : {UserID("alice")}, d : 0..MaxDepth,
      store : FewStores, faulty : {TRUE} ]
    \cup
    [ a : {"wrapped"},
      o : {Doc1}, s : {UserID("alice")}, d : 0..MaxDepth,
      store : FewStores, faulty : {FALSE} ]
    \cup
    [ a : {"guarded", "either", "nobody", "never", "broken"},
      o : {Doc1}, s : {UserID("alice")}, d : 0..MaxDepth,
      store : FewStores, faulty : {FALSE} ]
    \cup
    [ a : {"view", "edit"},
      o : {Doc1}, s : Subjects, d : 0..MaxDepth,
      store : OwnerStores, faulty : BOOLEAN ]
    \cup
    [ a : {"publish"},
      o : {Doc1}, s : Subjects, d : {1},
      store : OwnerStores, faulty : {FALSE} ]
    \cup
    [ a : {"publish", "view"},
      o : {Group1}, s : Subjects, d : 0..MaxDepth,
      store : OwnerStores, faulty : {FALSE} ]
    \cup
    [ a : {"nobody", "never"},
      o : {Doc1}, s : {UserID("bob")}, d : 0..MaxDepth,
      store : OwnerStores, faulty : {FALSE} ]
    \cup
    [ a : {"brokenboth", "exclude", "corrupt", "badchild"},
      o : {Doc1}, s : {UserID("alice")}, d : 0..MaxDepth,
      store : {<<>>, <<Grant("doc", "1", "viewer", "alice")>>}, faulty : {FALSE} ]
    \cup
    [ a : {"mixed"},
      o : {Doc1}, s : {UserID("alice")}, d : 1..MaxDepth,
      store : LiteralStores, faulty : {FALSE} ]
    \cup
    [ a : {"view_via_viewer"},
      o : {Doc1}, s : {UserID("alice")}, d : 0..MaxDepth,
      store : {ChainOfTwo}, faulty : {FALSE} ]

-----------------------------------------------------------------------------
(* Goroutines *)

Entry == <<>>
Root == <<1>>

Parent(p) == SubSeq(p, 1, Len(p) - 1)

\* the goroutine of Check itself: it runs c and the outermost union
entryFn ==
    [kind |-> "entry", object |-> NoObject, relation |-> <<>>,
     combiner |-> "", functions |-> <<>>, err |-> Nil]

\* a goroutine about to run fn; ch, n, i, op and ret are the state of the
\* combinator it runs (decisionChan, len(functions), the loop index, which
\* combinator, and whether it has returned and so canceled its childCtx);
\* rcv and sent record the decisions received and sent so far, seen the
\* value of *re.depth that isFinish read
newTask(fn) ==
    [fn |-> fn, pc |-> "start",
     ch |-> <<>>, n |-> 0, i |-> 0, op |-> "", ret |-> FALSE,
     res |-> sendDecision(FALSE, Nil),
     local |-> 0, edge |-> UserID(""),
     rcv |-> <<>>, sent |-> <<>>,
     exhausted |-> FALSE, queried |-> FALSE, storeErr |-> FALSE, seen |-> 0]

\* ctx.Done() of the ctx goroutine p was started with: the caller's ctx for
\* Check, else the childCtx of the combinator that launched p
ctxDone(p) ==
    \/ canceled
    \/ \E k \in 0..(Len(p) - 1) : tasks[SubSeq(p, 1, k)].ret

\* decisionChan := make(chan Decision, len(functions)); go fn(childCtx, decisionChan)
launch(p, t, functions, combiner) ==
    LET kids == { p \o <<k>> : k \in 1..Len(functions) }
    IN  [q \in (DOMAIN tasks) \cup kids |->
            IF q = p
            THEN [t EXCEPT !.ch = <<>>, !.n = Len(functions), !.i = 0,
                           !.op = combiner, !.pc = "wait"]
            ELSE IF q \in DOMAIN tasks THEN tasks[q]
            ELSE newTask(functions[q[Len(q)]])]

\* decisionChan <- d blocks while the buffer of the channel is full
CanSend(p) == Len(tasks[Parent(p)].ch) < tasks[Parent(p)].n

\* goroutine p, now in state t, puts d on the channel it was given
sendTo(p, t, d) ==
    [tasks EXCEPT ![Parent(p)].ch = Append(@, d),
                  ![p] = [t EXCEPT !.sent = Append(@, d)]]

-----------------------------------------------------------------------------
(* Request *)

\* an isFinish that lets depth 0 through
isFinishBelowZero == depth < 0

isFinish == depth <= 0

\* a decrease that writes back what it read
decreaseNot(read) == read

\* a decrease that takes two
decreaseTwice(read) == read - 2

decrease(read) == read - 1

-----------------------------------------------------------------------------
(* Check and c, up to the launch of the root task inside union *)

\* a lookup that takes whatever action it meets
actionMatchesAny(act, a) == TRUE

\* if act.Name == a
actionMatches(act, a) == act.Name = a

\* the position the loop over entity.Actions stops at, 0 when it runs out
actionIndex(a) ==
    LET actions == Entities(input.o.Namespace)
        ks == { k \in 1..Len(actions) : actionMatches(actions[k], a) }
    IN  IF ks = {} THEN 0 ELSE CHOOSE k \in ks : \A j \in ks : k <= j

kindKnown(child) == child.Kind \in {RewriteKind, LeafKind}

c(object, child) ==
    IF child.Kind = RewriteKind THEN checkRewrite(object, child)
    ELSE checkLeaf(object, child)

Check ==
    /\ tasks[Entry].pc = "call"
    /\ UNCHANGED <<input, canceled, queries, early>>
    /\ IF actionIndex(input.a) = 0
       THEN /\ returned' = TRUE
            /\ result' = sendDecision(FALSE, ActionCannotFoundError)
            /\ tasks' = [tasks EXCEPT ![Entry].pc = "done"]
            /\ UNCHANGED depth
       ELSE LET child == Entities(input.o.Namespace)[actionIndex(input.a)].Child
            IN  /\ depth' = input.d
                /\ IF ~kindKnown(child)
                   THEN /\ returned' = TRUE
                        /\ result' = sendDecision(FALSE, UndefinedChildKindError)
                        /\ tasks' = [tasks EXCEPT ![Entry].pc = "done"]
                   ELSE /\ tasks' = launch(Entry, tasks[Entry], <<c(input.o, child)>>, Union)
                        /\ UNCHANGED <<returned, result>>

\* the caller cancels the ctx it passed to Check
Cancel ==
    /\ ~canceled
    /\ ~returned
    /\ canceled' = TRUE
    /\ early' = (Root \notin DOMAIN tasks \/ tasks[Root].sent = <<>>)
    /\ UNCHANGED <<input, depth, tasks, returned, result, queries>>

-----------------------------------------------------------------------------
(* The combinators *)

\* a union that goes on receiving after an error
unionCaseSkipsErrors(r) ==
    IF r.Err = Nil /\ r.Can THEN <<TRUE, sendDecision(TRUE, Nil)>>
    ELSE <<FALSE, sendDecision(FALSE, Nil)>>

\* what union does with a received result: <<return now?, the decision returned>>
unionCase(r) ==
    IF r.Err = Nil /\ r.Can THEN <<TRUE, sendDecision(TRUE, Nil)>>
    ELSE IF r.Err # Nil THEN <<TRUE, sendDecision(FALSE, r.Err)>>
    ELSE <<FALSE, sendDecision(FALSE, Nil)>>

\* a union that ends its loop the way intersection does
unionAllTrue == sendDecision(TRUE, Nil)

\* what union returns when its loop ends
unionAll == sendDecision(FALSE, Nil)

\* an intersection that takes (false, nil) for one more decision to wait after
intersectionCaseSkipsFalse(r) ==
    IF r.Err # Nil THEN <<TRUE, sendDecision(FALSE, r.Err)>>
    ELSE <<FALSE, sendDecision(TRUE, Nil)>>

\* what intersection does with a received result
intersectionCase(r) ==
    IF r.Err = Nil /\ ~r.Can THEN <<TRUE, sendDecision(FALSE, Nil)>>
    ELSE IF r.Err # Nil THEN <<TRUE, sendDecision(FALSE, r.Err)>>
    ELSE <<FALSE, sendDecision(TRUE, Nil)>>

\* an intersection that denies when every task allowed
intersectionAllDenies == sendDecision(FALSE, Nil)

\* what intersection returns when its loop ends
intersectionAll == sendDecision(TRUE, Nil)

\* an empty combinator that allows
emptyDecisionAllows == sendDecision(TRUE, Nil)

\* what a combinator called with no function at all returns
emptyDecision == sendDecision(FALSE, Nil)

\* the combinator run by goroutine p returns dec (and its deferred cancel runs):
\* Check returns it to the caller, a task goes on to send it
return(p, t, dec) ==
    IF p = Entry
    THEN /\ tasks' = [tasks EXCEPT ![p] = [t EXCEPT !.ret = TRUE, !.res = dec, !.pc = "done"]]
         /\ returned' = TRUE
         /\ result' = dec
    ELSE /\ tasks' = [tasks EXCEPT ![p] = [t EXCEPT !.ret = TRUE, !.res = dec, !.pc = "send"]]
         /\ UNCHANGED <<returned, result>>

\* case result := <-decisionChan
receive(p, case, all) ==
    LET r == Head(tasks[p].ch)
        t == [tasks[p] EXCEPT !.ch = Tail(@), !.i = @ + 1, !.rcv = Append(@, r)]
    IN  IF case[1] THEN return(p, t, case[2])
        ELSE IF t.i = t.n THEN return(p, t, all)
        ELSE /\ tasks' = [tasks EXCEPT ![p] = t]
             /\ UNCHANGED <<returned, result>>

unionRecv(p) ==
    /\ tasks[p].pc = "wait"
    /\ tasks[p].op = Union
    /\ tasks[p].ch # <<>>
    /\ receive(p, unionCase(Head(tasks[p].ch)), unionAll)
    /\ UNCHANGED <<input, depth, canceled, queries, early>>

\* case <-ctx.Done()
unionDone(p) ==
    /\ tasks[p].pc = "wait"
    /\ tasks[p].op = Union
    /\ ctxDone(p)
    /\ return(p, tasks[p], sendDecision(FALSE, CanceledError))
    /\ UNCHANGED <<input, depth, canceled, queries, early>>

intersectionRecv(p) ==
    /\ tasks[p].pc = "wait"
    /\ tasks[p].op = Intersection
    /\ tasks[p].ch # <<>>
    /\ receive(p, intersectionCase(Head(tasks[p].ch)), intersectionAll)
    /\ UNCHANGED <<input, depth, canceled, queries, early>>

intersectionDone(p) ==
    /\ tasks[p].pc = "wait"
    /\ tasks[p].op = Intersection
    /\ ctxDone(p)
    /\ return(p, tasks[p], sendDecision(FALSE, CanceledError))
    /\ UNCHANGED <<input, depth, canceled, queries, early>>

-----------------------------------------------------------------------------
(* The task built by set *)

\* resultChan <- combiner(ctx, functions): the call of the combinator, which
\* returns at once when there is no function and else launches them all
setRun(p) ==
    /\ tasks[p].fn.kind = "set"
    /\ tasks[p].pc = "start"
    /\ IF Len(tasks[p].fn.functions) = 0
       THEN tasks' = [tasks EXCEPT ![p].res = emptyDecision, ![p].pc = "send"]
       ELSE tasks' = launch(p, tasks[p], tasks[p].fn.functions, tasks[p].fn.combiner)
    /\ UNCHANGED <<input, depth, canceled, returned, result, queries, early>>

\* resultChan <- combiner(ctx, functions): the send of what the combinator returned
setSend(p) ==
    /\ tasks[p].fn.kind = "set"
    /\ tasks[p].pc = "send"
    /\ CanSend(p)
    /\ tasks' = sendTo(p, [tasks[p] EXCEPT !.pc = "done"], tasks[p].res)
    /\ UNCHANGED <<input, depth, canceled, returned, result, queries, early>>

-----------------------------------------------------------------------------
(* The task built by fail *)

failSend(p) ==
    /\ tasks[p].fn.kind = "fail"
    /\ tasks[p].pc = "start"
    /\ CanSend(p)
    /\ tasks' = sendTo(p, [tasks[p] EXCEPT !.pc = "done"], sendDecision(FALSE, tasks[p].fn.err))
    /\ UNCHANGED <<input, depth, canceled, returned, result, queries, early>>

-----------------------------------------------------------------------------
(* The task built by check: the leaf resolver *)

\* a scan that is ended by the last user that can end it
scanStopLast(users, subject) ==
    LET ks == { k \in 1..Len(users) : Equals(users[k], subject) \/ ~IsUser(users[k]) }
    IN  IF ks = {} THEN 0 ELSE CHOOSE k \in ks : \A j \in ks : k >= j

\* the first user of the scan that ends it: 0 when the scan runs to the end
scanStop(users, subject) ==
    LET ks == { k \in 1..Len(users) : Equals(users[k], subject) \/ ~IsUser(users[k]) }
    IN  IF ks = {} THEN 0 ELSE CHOOSE k \in ks : \A j \in ks : k <= j

\* a scan that allows when it runs to the end
scanAllowsAtEnd(t, users, subject) ==
    LET k == scanStop(users, subject)
    IN  IF k = 0 \/ Equals(users[k], subject)
        THEN [t EXCEPT !.pc = "send", !.res = sendDecision(TRUE, Nil)]
        ELSE [t EXCEPT !.pc = "decrease", !.edge = users[k]]

\* the for loop over users, up to the statement that ends it
scan(t, users, subject) ==
    LET k == scanStop(users, subject)
    IN  IF k = 0
        THEN [t EXCEPT !.pc = "send", !.res = sendDecision(FALSE, Nil)]
        ELSE IF Equals(users[k], subject)
        THEN [t EXCEPT !.pc = "send", !.res = sendDecision(TRUE, Nil)]
        ELSE [t EXCEPT !.pc = "decrease", !.edge = users[k]]

RECURSIVE checkAlone(_, _, _)
\* the first decision of the task built by check(object, relation) when it
\* runs with the counter at d, alone on the counter, on a store that answers
checkAlone(object, relation, d) ==
    IF d <= 0 THEN sendDecision(FALSE, DepthError)
    ELSE LET users == getUsers(input.store, object, relation)
             k == scanStop(users, input.s)
         IN  IF k = 0 THEN sendDecision(FALSE, Nil)
             ELSE IF Equals(users[k], input.s) THEN sendDecision(TRUE, Nil)
             ELSE checkAlone(users[k].UserSet.Object, users[k].UserSet.Relation, d - 1)

\* what the task does when getUsers returned an error: fail(err); return
onStoreError(t, err) == [t EXCEPT !.pc = "done", !.queried = TRUE, !.storeErr = TRUE]

\* users, err = service.getUsers(ctx, object, relation), and what follows it;
\* the store may fail a query when it is a faulty one
resolve(t) ==
    { onStoreError(t, StoreError) : x \in (IF input.faulty THEN {1} ELSE {}) }
    \cup
    { scan([t EXCEPT !.queried = TRUE],
           getUsers(input.store, t.fn.object, t.fn.relation), input.s) }

\* a depth guard that reports a plain denial
onDepthErrorDenies(p, t) ==
    { sendTo(p, [t EXCEPT !.exhausted = TRUE, !.pc = "done"], sendDecision(FALSE, Nil)) }

\* what the task built by check does when it finds the depth used up:
\* it sends DepthError, and goes on to the query
onDepthError(p, t) ==
    { sendTo(p, u, sendDecision(FALSE, DepthError)) : u \in resolve([t EXCEPT !.exhausted = TRUE]) }

\* the task built by check, from its start to the end of the scan of users
checkStart(p) ==
    /\ tasks[p].fn.kind = "check"
    /\ tasks[p].pc = "start"
    /\ LET t == [tasks[p] EXCEPT !.seen = depth]
       IN  IF isFinish
           THEN /\ CanSend(p)
                /\ tasks' \in onDepthError(p, t)
           ELSE \E u \in resolve(t) : tasks' = [tasks EXCEPT ![p] = u]
    /\ queries' = queries + 1
    /\ UNCHANGED <<input, depth, canceled, returned, result, early>>

\* re.decrease(), first half: the load of *r.depth
checkDecrease(p) ==
    /\ tasks[p].fn.kind = "check"
    /\ tasks[p].pc = "decrease"
    /\ tasks' = [tasks EXCEPT ![p].local = depth, ![p].pc = "recurse"]
    /\ UNCHANGED <<input, depth, canceled, returned, result, queries, early>>

\* re.decrease(), second half: the store to *r.depth; then
\* union(ctx, []CheckFunction{service.check(ctx, t.UserSet.Object, t.UserSet.Relation, re)})
\* up to the launch of the recursive task
checkRecurse(p) ==
    /\ tasks[p].fn.kind = "check"
    /\ tasks[p].pc = "recurse"
    /\ Len(p) < MaxPath
    /\ depth' = decrease(tasks[p].local)
    /\ tasks' = launch(p, tasks[p],
                       << check(tasks[p].edge.UserSet.Object, tasks[p].edge.UserSet.Relation) >>,
                       Union)
    /\ UNCHANGED <<input, canceled, returned, result, queries, early>>

\* decisionChan <- ... of a match, of the recursion's result, of the scan's end
checkSend(p) ==
    /\ tasks[p].fn.kind = "check"
    /\ tasks[p].pc = "send"
    /\ CanSend(p)
    /\ tasks' = sendTo(p, [tasks[p] EXCEPT !.pc = "done"], tasks[p].res)
    /\ UNCHANGED <<input, depth, canceled, returned, result, queries, early>>

-----------------------------------------------------------------------------
(* The specification *)

Init ==
    /\ input \in Inputs
    /\ depth = 0
    /\ tasks = (Entry :> [newTask(entryFn) EXCEPT !.pc = "call"])
    /\ canceled = FALSE
    /\ returned = FALSE
    /\ result = sendDecision(FALSE, Nil)
    /\ queries = 0
    /\ early = FALSE

\* the steps of the engine
Run ==
    \/ Check
    \/ \E p \in DOMAIN tasks : unionRecv(p)
    \/ \E p \in DOMAIN tasks : unionDone(p)
    \/ \E p \in DOMAIN tasks : intersectionRecv(p)
    \/ \E p \in DOMAIN tasks : intersectionDone(p)
    \/ \E p \in DOMAIN tasks : setRun(p)
    \/ \E p \in DOMAIN tasks : setSend(p)
    \/ \E p \in DOMAIN tasks : failSend(p)
    \/ \E p \in DOMAIN tasks : checkStart(p)
    \/ \E p \in DOMAIN tasks : checkDecrease(p)
    \/ \E p \in DOMAIN tasks : checkRecurse(p)
    \/ \E p \in DOMAIN tasks : checkSend(p)

Next ==
    \/ Cancel
    \/ Run

Spec == Init /\ [][Next]_vars

-----------------------------------------------------------------------------
(* What the properties below are stated with *)

Tasks == DOMAIN tasks

\* the goroutines launched by the combinator that p runs
Children(p) == { q \in Tasks : Len(q) = Len(p) + 1 /\ Parent(q) = p }

Reported(q, d) == \E j \in 1..Len(tasks[q].sent) : tasks[q].sent[j] = d

True == sendDecision(TRUE, Nil)
False == sendDecision(FALSE, Nil)

\* the combinators of kind op that were started with n >= 1 functions and
\* whose scope has never been canceled
Started(op) == { p \in Tasks : tasks[p].op = op /\ tasks[p].n >= 1 /\ ~ctxDone(p) }

-----------------------------------------------------------------------------
(* C1 *)

\* C1: a union over N >= 1 tasks whose scope is never canceled: while it waits
\* it has received neither (true, nil) nor an error (it returns as soon as the
\* first of them is received, whatever the other tasks do); it returns
\* (true, nil) only if some task reported (true, nil), and (false, e) with e
\* non-nil only if some task reported the error e; and when each of the N
\* tasks reported the one decision (false, nil), it returns (false, nil).
C1_Union ==
    \A p \in Started(Union) :
        /\ tasks[p].pc = "wait" =>
              \A j \in 1..Len(tasks[p].rcv) : tasks[p].rcv[j] = False
        /\ tasks[p].ret =>
              /\ tasks[p].res.Can => tasks[p].res = True
              /\ tasks[p].res = True => \E q \in Children(p) : Reported(q, True)
              /\ tasks[p].res.Err # Nil =>
                    \E q \in Children(p) : \E j \in 1..Len(tasks[q].sent) :
                        tasks[q].sent[j].Err = tasks[p].res.Err
              /\ (\A q \in Children(p) : tasks[q].sent = <<False>>) => tasks[p].res = False

\* a union of two tasks has returned (true, nil) while the other task has
\* reported nothing yet
C1_Witness ==
    \E p \in Started(Union) :
        /\ tasks[p].n >= 2
        /\ tasks[p].ret
        /\ tasks[p].res = True
        /\ \E q \in Children(p) : tasks[q].sent = <<>>

\* a union of two tasks that each reported (false, nil) has returned
C1_WitnessAllFalse ==
    \E p \in Started(Union) :
        /\ tasks[p].n >= 2
        /\ tasks[p].ret
        /\ \A q \in Children(p) : tasks[q].sent = <<False>>

\* a union has returned the error one of two tasks reported
C1_WitnessError ==
    \E p \in Started(Union) :
        /\ tasks[p].n >= 2
        /\ tasks[p].ret
        /\ tasks[p].res.Err # Nil

-----------------------------------------------------------------------------
(* C2 *)

\* C2: an intersection over N >= 1 tasks whose scope is never canceled: while
\* it waits it has received only (true, nil) (the first (false, nil) makes it
\* return (false, nil), the first error e makes it return (false, e)); with
\* each task reporting one decision, it returns (true, nil) exactly when all N
\* tasks reported (true, nil); and it never returns (true, nil) when a task
\* reported (false, nil) or an error.
C2_Intersection ==
    \A p \in Started(Intersection) :
        /\ tasks[p].pc = "wait" =>
              \A j \in 1..Len(tasks[p].rcv) : tasks[p].rcv[j] = True
        /\ tasks[p].ret =>
              LET last == tasks[p].rcv[Len(tasks[p].rcv)]
              IN  /\ tasks[p].res.Can => tasks[p].res = True
                  /\ last = False => tasks[p].res = False
                  /\ last.Err # Nil => tasks[p].res = sendDecision(FALSE, last.Err)
                  /\ (\A q \in Children(p) : Len(tasks[q].sent) <= 1) =>
                        (tasks[p].res = True <=>
                            \A q \in Children(p) : tasks[q].sent = <<True>>)
                  /\ tasks[p].res = True =>
                        \A q \in Children(p) : \A j \in 1..Len(tasks[q].sent) :
                            tasks[q].sent[j] = True

\* an intersection of two tasks has returned (true, nil)
C2_Witness ==
    \E p \in Started(Intersection) :
        /\ tasks[p].n >= 2
        /\ tasks[p].ret
        /\ tasks[p].res = True

\* an intersection of two tasks has returned (false, nil) on the first
\* (false, nil), the other task having reported nothing yet
C2_WitnessFalse ==
    \E p \in Started(Intersection) :
        /\ tasks[p].n >= 2
        /\ tasks[p].ret
        /\ tasks[p].res = False
        /\ \E q \in Children(p) : tasks[q].sent = <<>>

-----------------------------------------------------------------------------
(* C3 *)

\* the root node of the action asked for
RootNode ==
    LET actions == Entities(input.o.Namespace)
    IN  actions[CHOOSE k \in 1..Len(actions) : actions[k].Name = input.a].Child

RootIsLeaf == input.a \in ActionNames /\ RootNode.Kind = LeafKind

\* the store holds a fact granting the literal subject s relation rel on object o
HasGrant(o, rel, s) ==
    \E k \in 1..Len(input.store) : input.store[k] = Grant(o.Namespace, o.ID, rel, s.ID)

\* the call runs on a store that does not fail and a scope that is not canceled
Undisturbed == ~input.faulty /\ ~canceled

\* C3: the store holds a fact granting the subject relation R on the object,
\* the root of the action is a Leaf on R and maxDepth >= 1: Check returns
\* (true, nil), whatever other facts the store holds for (object, R) and in
\* whatever order it returns them.
C3_DirectGrant ==
    ( /\ RootIsLeaf
      /\ IsUser(input.s)
      /\ HasGrant(input.o, RootNode.Value[1], input.s)
      /\ input.d >= 1
      /\ Undisturbed
      /\ returned )
    => result = True

-----------------------------------------------------------------------------
(* C4 *)

\* C4: a leaf task whose store query returned the error E reports (false, E);
\* and with a root Leaf, Check then returns (false, E).
C4_StoreError ==
    /\ \A p \in Tasks : tasks[p].storeErr => Reported(p, sendDecision(FALSE, StoreError))
    /\ ( RootIsLeaf /\ returned /\ ~canceled /\ Root \in Tasks /\ tasks[Root].storeErr )
          => result = sendDecision(FALSE, StoreError)

-----------------------------------------------------------------------------
(* C5 *)

\* C5: every check task sends exactly one Decision and then terminates: never
\* more than one, and not zero once it has terminated.
C5_OneDecision ==
    \A p \in Tasks \ {Entry} :
        /\ Len(tasks[p].sent) <= 1
        /\ tasks[p].pc = "done" => Len(tasks[p].sent) = 1

\* C5, the half "never more than one"
C5_AtMostOne == \A p \in Tasks \ {Entry} : Len(tasks[p].sent) <= 1

\* C5, the half "never zero"
C5_AtLeastOne == \A p \in Tasks \ {Entry} : tasks[p].pc = "done" => Len(tasks[p].sent) >= 1

-----------------------------------------------------------------------------
(* C6 *)

\* the userset edges of the store form the cycle
\* doc:1#viewer -> group:g1#member -> doc:1#viewer
HasCycle ==
    /\ \E k \in 1..Len(input.store) :
          input.store[k] = Edge("doc", "1", "viewer", "group", "g1", "member")
    /\ \E k \in 1..Len(input.store) :
          input.store[k] = Edge("group", "g1", "member", "doc", "1", "viewer")

\* no fact of the store names the subject of the request
NoFactOfSubject ==
    /\ IsUser(input.s)
    /\ \A k \in 1..Len(input.store) :
          input.store[k].UsersetEntity = "" => input.store[k].UsersetObjectID # input.s.ID

CycleCall ==
    /\ RootIsLeaf
    /\ RootNode.Value = <<"viewer">>
    /\ input.o = Doc1
    /\ HasCycle
    /\ NoFactOfSubject
    /\ input.d >= 1

\* C6: on the cycle, with no fact matching the subject and a root Leaf on
\* viewer, Check(_, action, doc:1, d) with d >= 1 and the scope not canceled
\* returns (false, DepthError): what it returns is that decision, and as long
\* as it has not returned (the store answering every query) the engine has a
\* step to take.
C6_Cycle ==
    (CycleCall /\ ~canceled) =>
        /\ returned => result = sendDecision(FALSE, DepthError)
        /\ ~input.faulty => (returned \/ ENABLED Run)

\* Check(_, "view_via_viewer", "doc:1", 2) has returned on the cycle
C6_Witness ==
    /\ CycleCall
    /\ input.d = 2
    /\ ~canceled
    /\ returned
    /\ result = sendDecision(FALSE, DepthError)

-----------------------------------------------------------------------------
(* C7 *)

LeafTasks == { p \in Tasks : tasks[p].fn.kind = "check" }

\* C7: a Check call with maxDepth d causes boundedly many leaf resolutions:
\* a leaf resolution that found the depth budget used up starts no further
\* one, so a root Leaf is resolved at most d + 1 times.
C7_Bounded ==
    /\ \A p \in LeafTasks : tasks[p].exhausted => Children(p) = {}
    /\ RootIsLeaf => Cardinality(LeafTasks) <= input.d + 1

-----------------------------------------------------------------------------
(* C8 *)

RECURSIVE Valid(_)
\* every node of the tree is of the closed variant set
Valid(node) ==
    IF node.Kind = LeafKind
    THEN node.Type \in {TupleToUserSetType, ComputedUserSetType}
    ELSE /\ node.Kind = RewriteKind
         /\ node.Type \in {Union, Intersection}
         /\ \A k \in 1..Len(node.Children) : Valid(node.Children[k])

RECURSIVE HasLeaf(_)
HasLeaf(node) ==
    \/ node.Kind = LeafKind
    \/ \E k \in 1..Len(node.Children) : HasLeaf(node.Children[k])

RECURSIVE HasEmpty(_)
\* the tree holds a rewrite without children
HasEmpty(node) ==
    /\ node.Kind = RewriteKind
    /\ \/ Len(node.Children) = 0
       \/ \E k \in 1..Len(node.Children) : HasEmpty(node.Children[k])

RECURSIVE NoEmptyBelowIntersection(_)
\* no Intersection of the tree has a rewrite without children below it
NoEmptyBelowIntersection(node) ==
    node.Kind = RewriteKind =>
        /\ node.Type = Intersection =>
              \A k \in 1..Len(node.Children) : ~HasEmpty(node.Children[k])
        /\ \A k \in 1..Len(node.Children) : NoEmptyBelowIntersection(node.Children[k])

\* Check was called with maxDepth = 0 on a valid rule tree and has returned,
\* its scope not canceled
DepthZeroCall ==
    /\ input.a \in ActionNames
    /\ Valid(RootNode)
    /\ input.d = 0
    /\ ~canceled
    /\ returned

\* C8 as claimed: for any valid rule tree, empty rewrites as siblings
\* included, Check with maxDepth = 0 that reached a Leaf resolution returns
\* (false, DepthError).
C8_DepthZero ==
    (DepthZeroCall /\ \E p \in LeafTasks : tasks[p].exhausted)
        => result = sendDecision(FALSE, DepthError)

\* C8 as amended: for any valid rule tree that holds a Leaf and has no empty
\* rewrite below an Intersection, Check with maxDepth = 0 returns
\* (false, DepthError), under every interleaving.
C8_DepthZeroAmended ==
    (DepthZeroCall /\ HasLeaf(RootNode) /\ NoEmptyBelowIntersection(RootNode))
        => result = sendDecision(FALSE, DepthError)

\* Check with maxDepth = 0 has returned DepthError on a union of an empty
\* rewrite and a Leaf, the empty rewrite's (false, nil) received first
C8_Witness ==
    /\ DepthZeroCall
    /\ input.a = "either"
    /\ Len(tasks[Root].rcv) = 2
    /\ result = sendDecision(FALSE, DepthError)

-----------------------------------------------------------------------------
(* C9 *)

\* C9: when the caller's scope is canceled before any task has reported to
\* the outermost combinator (in particular before Check is called), Check
\* returns (false, CanceledError) and nothing else.
C9_Canceled ==
    (returned /\ early /\ input.a \in ActionNames)
        => result = sendDecision(FALSE, CanceledError)

-----------------------------------------------------------------------------
(* C10 *)

\* C10: a union of one, its scope not canceled, returns exactly the first
\* Decision its one task reported: so does the outermost union of Check with
\* the root task, and so does the task of Rewrite{Union, [c]} with the task of
\* c; and, the store answering, Check on Rewrite{Union, [Leaf]} and Check on
\* the Leaf alone return the same Decision, the one the Leaf's resolution
\* gives by itself.
C10_UnionOfOne ==
    /\ \A p \in Started(Union) :
          (tasks[p].n = 1 /\ tasks[p].ret) =>
              /\ tasks[p \o <<1>>].sent # <<>>
              /\ tasks[p].res = Head(tasks[p \o <<1>>].sent)
    /\ \A p \in Tasks \ {Entry} :
          (tasks[p].fn.kind = "set" /\ tasks[p].fn.combiner = Union /\ tasks[p].n = 1
                /\ tasks[p].sent # <<>> /\ ~ctxDone(p)) =>
              tasks[p].sent = << Head(tasks[p \o <<1>>].sent) >>
    /\ (input.a \in {"view_via_viewer", "wrapped"} /\ Undisturbed /\ returned) =>
          result = checkAlone(input.o, <<"viewer">>, input.d)

\* Check on Rewrite{Union, [Leaf]} has returned the (true, nil) the Leaf's
\* task reported
C10_Witness ==
    /\ input.a = "wrapped"
    /\ Undisturbed
    /\ returned
    /\ result = True
    /\ tasks[Root].sent = <<True>>
    /\ tasks[Root \o <<1>>].sent = <<True>>


-----------------------------------------------------------------------------
(* C11 *)

\* the action asked for is declared, and its root node is an empty rewrite
EmptyRoot ==
    /\ input.a \in ActionNames
    /\ RootNode.Kind = RewriteKind
    /\ RootNode.Type \in {Union, Intersection}
    /\ RootNode.Children = <<>>

\* the tasks of the rewrites that have no child
EmptyTasks ==
    { p \in Tasks : tasks[p].fn.kind = "set" /\ tasks[p].fn.functions = <<>> }

\* C11: Check on a root Rewrite{Union, []} or Rewrite{Intersection, []}
\* returns (false, nil), for every subject and every maxDepth, 0 included,
\* when its scope is not canceled, and the store is never queried; the task
\* of a rewrite with no child, wherever it stands in the tree, launches
\* nothing and reports (false, nil) and nothing else.
C11_EmptyRewrite ==
    /\ EmptyRoot =>
          /\ queries = 0
          /\ LeafTasks = {}
          /\ (returned /\ ~canceled) => result = False
          /\ Root \in Tasks => Root \in EmptyTasks
    /\ \A p \in EmptyTasks :
          /\ Children(p) = {}
          /\ tasks[p].sent \in { <<>>, <<False>> }
          /\ tasks[p].pc \in {"send", "done"} => tasks[p].res = False

\* Check on Rewrite{Intersection, []} with maxDepth 0 has returned (false, nil)
C11_Witness ==
    /\ input.a = "never"
    /\ input.d = 0
    /\ ~canceled
    /\ returned
    /\ result = False
    /\ tasks[Root].sent = <<False>>
    /\ queries = 0


-----------------------------------------------------------------------------
(* C12 *)

\* C12: when the entity of the object declares no action of the name asked
\* for (an entity with no action at all included), Check returns
\* (false, ActionCannotFoundError), whatever the state of the caller's scope,
\* and it does so without building a Request (the depth counter is never
\* set), without launching a task and without querying the store.
C12_UnknownAction ==
    input.a \notin ActionNames =>
        /\ Tasks = {Entry}
        /\ tasks[Entry].n = 0
        /\ tasks[Entry].ch = <<>>
        /\ queries = 0
        /\ depth = 0
        /\ returned => result = sendDecision(FALSE, ActionCannotFoundError)
        /\ returned \/ ENABLED Check

\* Check of the action view on an object of group, an entity that declares
\* no action, has returned, the maxDepth being 2
C12_Witness ==
    /\ input.o = Group1
    /\ input.a = "view"
    /\ input.d = 2
    /\ returned
    /\ result = sendDecision(FALSE, ActionCannotFoundError)

\* Check of an action that doc does not declare has returned
C12_WitnessDoc ==
    /\ input.o = Doc1
    /\ input.a = "publish"
    /\ returned
    /\ result = sendDecision(FALSE, ActionCannotFoundError)


-----------------------------------------------------------------------------
(* C13 *)

\* every fact of the store has a literal subject
LiteralOnly == \A k \in 1..Len(input.store) : input.store[k].UsersetEntity = ""

RECURSIVE Value(_)
\* the boolean value of a rule tree: a Leaf on R is true when the subject is
\* the literal subject of a fact for (object, first component of R)
Value(node) ==
    IF node.Kind = LeafKind THEN HasGrant(input.o, node.Value[1], input.s)
    ELSE IF node.Children = <<>> THEN FALSE
    ELSE IF node.Type = Union
    THEN \E k \in 1..Len(node.Children) : Value(node.Children[k])
    ELSE \A k \in 1..Len(node.Children) : Value(node.Children[k])

\* a call the reference evaluation speaks of
LiteralCall ==
    /\ input.a \in ActionNames
    /\ Valid(RootNode)
    /\ LiteralOnly
    /\ input.d >= 1
    /\ ~input.faulty

\* C13: on a store whose facts all have literal subjects, with maxDepth >= 1,
\* the store answering and the scope not canceled, Check on a tree of valid
\* leaves and Union/Intersection rewrites returns (b, nil), b the boolean
\* value of the tree (Union = OR, Intersection = AND, empty rewrite = false),
\* under every interleaving; and until it has returned the engine has a step.
C13_Reference ==
    LiteralCall =>
        /\ (returned /\ ~canceled) => result = sendDecision(Value(RootNode), Nil)
        /\ returned \/ ENABLED Run

\* Check of Intersection[Union[owner, editor], viewer] has returned
\* (true, nil): alice is editor and viewer, not owner
C13_Witness ==
    /\ input.a = "mixed"
    /\ LiteralCall
    /\ ~HasGrant(input.o, "owner", input.s)
    /\ ~canceled
    /\ returned
    /\ result = True

\* the same tree, alice being viewer only: (false, nil)
C13_WitnessFalse ==
    /\ input.a = "mixed"
    /\ LiteralCall
    /\ HasGrant(input.o, "viewer", input.s)
    /\ ~canceled
    /\ returned
    /\ result = False


-----------------------------------------------------------------------------
(* C14 *)

\* C14: a leaf resolution that starts with the remaining depth at or below 0
\* reports DepthError and returns at once: it reports nothing else, issues no
\* store query, does not decrement the depth and starts no recursive
\* resolution.
C14_GuardFirst ==
    \A p \in LeafTasks :
        (tasks[p].pc # "start" /\ tasks[p].seen <= 0) =>
            /\ tasks[p].sent = << sendDecision(FALSE, DepthError) >>
            /\ ~tasks[p].queried
            /\ tasks[p].pc = "done"
            /\ Children(p) = {}

\* the half of C14 that the code keeps: such a resolution reports DepthError
\* before anything else
C14_ReportsDepthError ==
    \A p \in LeafTasks :
        (tasks[p].pc # "start" /\ tasks[p].seen <= 0) =>
            /\ tasks[p].exhausted
            /\ Head(tasks[p].sent) = sendDecision(FALSE, DepthError)


-----------------------------------------------------------------------------
(* C15 *)

\* the number of userset edges followed on the chain of resolutions that
\* leads to leaf task p: the leaf tasks above p
EdgesFollowed(p) ==
    Cardinality({ k \in 1..(Len(p) - 1) : tasks[SubSeq(p, 1, k)].fn.kind = "check" })

\* C15: the remaining depth a leaf resolution observes is maxDepth minus the
\* number of userset edges followed on its own chain; the decrements of
\* sibling branches do not change it.
C15_PerBranch ==
    \A p \in LeafTasks :
        tasks[p].pc # "start" => tasks[p].seen = input.d - EdgesFollowed(p)

\* what the code gives instead: a resolution observes at most that much
C15_AtMost ==
    \A p \in LeafTasks :
        tasks[p].pc # "start" => tasks[p].seen <= input.d - EdgesFollowed(p)


\* Union[owner, parent->view] with maxDepth 1: the resolution of owner, which
\* has followed no edge, observes depth 0 and reports DepthError, its sibling
\* having decremented the counter they share
C15_SiblingSeesLess ==
    /\ input.a = "view"
    /\ input.d = 1
    /\ Root \o <<1>> \in LeafTasks
    /\ tasks[Root \o <<1>>].pc # "start"
    /\ tasks[Root \o <<1>>].seen = 0
    /\ Reported(Root \o <<1>>, sendDecision(FALSE, DepthError))
    /\ ~tasks[Root \o <<2>>].exhausted
    /\ Children(Root \o <<2>>) # {}


-----------------------------------------------------------------------------
(* C16 *)

UndefinedErrors == {UndefinedChildKindError, UndefinedChildTypeError}

\* the tasks that stand for a node outside the closed variant set
FailTasks == { p \in Tasks : tasks[p].fn.kind = "fail" }

\* the action asked for is declared and its tree holds an undefined node
UndefinedCall == input.a \in ActionNames /\ ~Valid(RootNode)

\* such a node's task reports nothing but its error, and reports it once
FailReports ==
    \A p \in FailTasks :
        /\ tasks[p].fn.err \in UndefinedErrors
        /\ Children(p) = {}
        /\ tasks[p].sent \in { <<>>, << sendDecision(FALSE, tasks[p].fn.err) >> }

\* C16: when the tree of the action holds a node whose kind, rewrite op or
\* leaf type is outside the closed variant set, that node's task reports
\* (false, UndefinedChildKindError / UndefinedChildTypeError) and Check
\* returns a non-nil error, never the (true, nil) or (false, nil) of a
\* sibling, under any interleaving.
C16_Fatal ==
    /\ FailReports
    /\ (UndefinedCall /\ returned) => result.Err # Nil

\* the error the dispatcher puts in place of the whole node, Nil when the
\* node itself is dispatched
Rejected(node) ==
    IF node.Kind = LeafKind
    THEN IF node.Type \in {TupleToUserSetType, ComputedUserSetType}
         THEN Nil ELSE UndefinedChildTypeError
    ELSE IF node.Kind # RewriteKind THEN UndefinedChildKindError
    ELSE IF node.Type \notin {Union, Intersection} THEN UndefinedChildTypeError
    ELSE IF \E k \in 1..Len(node.Children) :
                node.Children[k].Kind \notin {RewriteKind, LeafKind}
    THEN UndefinedChildKindError
    ELSE Nil

\* some combinator returned the (true, nil) (a union) or the (false, nil) (an
\* intersection) it received while decisions of its tasks were still to come
ShortCircuited ==
    \E p \in Tasks :
        /\ tasks[p].ret
        /\ tasks[p].rcv # <<>>
        /\ Len(tasks[p].rcv) < tasks[p].n
        /\ tasks[p].res = tasks[p].rcv[Len(tasks[p].rcv)]
        /\ \/ tasks[p].op = Union /\ tasks[p].res = True
           \/ tasks[p].op = Intersection /\ tasks[p].res = False

\* C16 amended: the undefined node's task reports nothing but its error,
\* once; a combinator that receives such an error returns it at once; Check
\* returns the error when the root node itself is rejected (scope not
\* canceled), and otherwise returns a non-nil error unless a combinator
\* short-circuited on the (true, nil) (union) or (false, nil) (intersection)
\* of a sibling that it received before the error.
C16_FatalAmended ==
    /\ FailReports
    /\ \A p \in Tasks : \A j \in 1..Len(tasks[p].rcv) :
          tasks[p].rcv[j].Err \in UndefinedErrors =>
              /\ j = Len(tasks[p].rcv)
              /\ tasks[p].ret
              /\ tasks[p].res = tasks[p].rcv[j]
    /\ (UndefinedCall /\ returned) => (result.Err # Nil \/ ShortCircuited)
    /\ (UndefinedCall /\ Rejected(RootNode) # Nil /\ returned /\ ~canceled) =>
          result = sendDecision(FALSE, Rejected(RootNode))
    /\ UndefinedCall => (returned \/ ENABLED Run)

\* Check of Union[leaf of undefined type, viewer] has returned the error of
\* the undefined leaf, the viewer task having reported (true, nil) as well
C16_Witness ==
    /\ input.a = "broken"
    /\ ~canceled
    /\ returned
    /\ result = sendDecision(FALSE, UndefinedChildTypeError)
    /\ tasks[Root \o <<1>>].sent = << sendDecision(FALSE, UndefinedChildTypeError) >>
    /\ tasks[Root \o <<2>>].sent = <<True>>

\* Check on a root of undefined kind has returned UndefinedChildKindError
C16_WitnessRoot ==
    /\ input.a = "corrupt"
    /\ returned
    /\ result = sendDecision(FALSE, UndefinedChildKindError)

\* Check of Intersection[leaf of undefined type, viewer] has returned the
\* (false, nil) of viewer
C16_WitnessDenied ==
    /\ input.a = "brokenboth"
    /\ ~canceled
    /\ returned
    /\ result = False


-----------------------------------------------------------------------------
(* C17 *)

\* the users the store returned to leaf task p
UsersOf(p) == getUsers(input.store, tasks[p].fn.object, tasks[p].fn.relation)

\* users[i] is a userset edge, not equal to the subject, and every user
\* before it is a literal that is not the subject
FirstEdgeAt(users, i) ==
    /\ i \in 1..Len(users)
    /\ users[i].ID = ""
    /\ users[i] # input.s
    /\ \A j \in 1..(i - 1) : users[j].ID # "" /\ users[j] # input.s

\* the leaf tasks that have scanned the facts the store returned
Scanned == { p \in LeafTasks : tasks[p].queried /\ ~tasks[p].storeErr }

\* what a resolution whose scan met a first userset edge at position i has
\* done, and what one whose scan met none has not
FirstEdgeOnly ==
    \A p \in Scanned :
        LET users == UsersOf(p)
            t == tasks[p]
        IN  /\ \A i \in 1..Len(users) :
                  FirstEdgeAt(users, i) =>
                      /\ t.pc \in {"decrease", "recurse", "wait", "send", "done"}
                      /\ t.edge = users[i]
                      /\ t.pc \in {"wait", "send", "done"} =>
                            /\ t.n = 1
                            /\ Children(p) = { p \o <<1>> }
                            /\ tasks[p \o <<1>>].fn =
                                  check(users[i].UserSet.Object, users[i].UserSet.Relation)
                      /\ (t.ret /\ ~ctxDone(p)) =>
                            /\ tasks[p \o <<1>>].sent # <<>>
                            /\ t.res = Head(tasks[p \o <<1>>].sent)
                      /\ t.pc = "done" =>
                            /\ t.sent # <<>>
                            /\ t.sent[Len(t.sent)] = t.res
                            /\ Len(t.sent) = IF t.exhausted THEN 2 ELSE 1
            /\ (\A i \in 1..Len(users) : ~FirstEdgeAt(users, i)) =>
                  /\ Children(p) = {}
                  /\ t.pc \in {"send", "done"}

\* the leaf tasks that have started a recursive resolution
Recursed == { p \in LeafTasks : Children(p) # {} }

\* q is p or a task below p
Below(p, q) == Len(p) <= Len(q) /\ SubSeq(q, 1, Len(p)) = p

\* each resolution that recursed took exactly one from the depth: when those
\* resolutions stand on one chain, so that none decrements while another
\* does, the counter is maxDepth less their number
DecrementedOnce ==
    (Root \in Tasks /\ \A p, q \in Recursed : Below(p, q) \/ Below(q, p)) =>
        depth = input.d - Cardinality(Recursed)

\* C17: when the scan of a leaf resolution meets, before any fact equal to
\* the subject, a first userset edge at position i, the resolution decrements
\* the depth by exactly one, starts exactly one recursive resolution, on that
\* edge's (object, relation), and the decision it sends for the scan is the
\* decision of that recursion (its scope not canceled); it recurses into no
\* other fact, and a resolution whose scan meets no such edge starts none.
C17_FirstEdge == FirstEdgeOnly /\ DecrementedOnce

\* the facts of (doc:1, viewer) are [bob, the edge to group:g1#member, alice]:
\* the resolution has recursed into group:g1#member, where alice is, and has
\* sent the (true, nil) of that recursion, the depth being now 1 of 2
C17_Witness ==
    /\ input.a = "view_via_viewer"
    /\ input.d = 2
    /\ Undisturbed
    /\ Root \in Scanned
    /\ FirstEdgeAt(UsersOf(Root), 2)
    /\ Len(UsersOf(Root)) = 3
    /\ tasks[Root].pc = "done"
    /\ tasks[Root].sent = <<True>>
    /\ tasks[Root \o <<1>>].sent = <<True>>
    /\ depth = 1


-----------------------------------------------------------------------------
(* C18 *)

\* the facts the store holds for (object, relation name), in store order
FactsOf(object, name) ==
    SelectSeq(input.store,
              LAMBDA e : e.Entity = object.Namespace /\ e.ObjectID = object.ID /\ e.Relation = name)

RECURSIVE ChainLength(_, _, _)
\* k when k userset edges, each the only fact of its level, lead from
\* (object, name) to an object whose only fact has the subject as literal
\* subject; -1 when the store holds no such chain of at most fuel levels
ChainLength(object, name, fuel) ==
    LET facts == FactsOf(object, name)
    IN  IF fuel = 0 \/ Len(facts) # 1 THEN -1
        ELSE IF facts[1].UsersetEntity = ""
        THEN IF facts[1].UsersetObjectID = input.s.ID THEN 0 ELSE -1
        ELSE IF facts[1].UsersetRelation = ELLIPSIS THEN -1
        ELSE LET rest == ChainLength(Object(facts[1].UsersetEntity, facts[1].UsersetObjectID),
                                     facts[1].UsersetRelation, fuel - 1)
             IN  IF rest < 0 THEN -1 ELSE rest + 1

\* the length of the chain that starts at the object and the relation of the
\* root Leaf
ChainOfCall == ChainLength(input.o, RootNode.Value[1], Len(input.store))

\* C18: the action is a Leaf and a chain of exactly k userset edges ends at
\* an object with a fact whose literal subject is the subject; the scope is
\* not canceled and the store answers: Check returns (true, nil) when
\* maxDepth >= k + 1 and (false, DepthError) when maxDepth <= k; and until it
\* has returned the engine has a step.
C18_Threshold ==
    (RootIsLeaf /\ ~input.faulty /\ ChainOfCall >= 0) =>
        /\ (returned /\ ~canceled) =>
              result = IF input.d >= ChainOfCall + 1 THEN True
                       ELSE sendDecision(FALSE, DepthError)
        /\ returned \/ ENABLED Run

\* a chain of one edge and maxDepth 2: (true, nil)
C18_Witness ==
    /\ RootIsLeaf
    /\ Undisturbed
    /\ ChainOfCall = 1
    /\ input.d = 2
    /\ returned
    /\ result = True

\* a chain of one edge and maxDepth 1: (false, DepthError)
C18_WitnessShort ==
    /\ RootIsLeaf
    /\ Undisturbed
    /\ ChainOfCall = 1
    /\ input.d = 1
    /\ returned
    /\ result = sendDecision(FALSE, DepthError)

\* a chain of two edges and maxDepth 2: (false, DepthError)
C18_WitnessTwo ==
    /\ RootIsLeaf
    /\ Undisturbed
    /\ ChainOfCall = 2
    /\ input.d = 2
    /\ returned
    /\ result = sendDecision(FALSE, DepthError)


-----------------------------------------------------------------------------
(* C19 *)

\* some resolution of the call was returned a fact whose user is the subject
SubjectQueried ==
    \E p \in Scanned : \E k \in 1..Len(UsersOf(p)) : UsersOf(p)[k] = input.s

\* C19: whatever the tree, the store, maxDepth, the interleaving, the state
\* of the scope and the failures of the store, Check returns allowed = true
\* only with a nil error and only when some store query of the call returned
\* a fact whose user equals the subject; and no task and no combinator ever
\* yields allowed = true together with an error.
C19_NoFalseGrant ==
    /\ (returned /\ result.Can) => (result.Err = Nil /\ SubjectQueried)
    /\ \A p \in Tasks :
          /\ tasks[p].res.Can => tasks[p].res.Err = Nil
          /\ \A j \in 1..Len(tasks[p].sent) :
                tasks[p].sent[j].Can =>
                    (tasks[p].sent[j].Err = Nil /\ SubjectQueried)

\* Check of Intersection[owner, editor] has returned (true, nil): both
\* resolutions found alice among the facts returned to them
C19_Witness ==
    /\ input.a = "edit"
    /\ returned
    /\ result = True
    /\ \A k \in 1..2 :
          /\ Root \o <<k>> \in Scanned
          /\ tasks[Root \o <<k>>].sent = <<True>>
          /\ UsersOf(Root \o <<k>>) = <<input.s>>

\* Check of Intersection[Union[owner, editor], viewer] on the empty store has
\* returned without allowing: no query returned a fact of the subject
C19_WitnessDenied ==
    /\ input.a = "mixed"
    /\ input.store = <<>>
    /\ ~canceled
    /\ returned
    /\ ~result.Can
    /\ ~SubjectQueried


-----------------------------------------------------------------------------
(* C20 *)

\* the number of decisions the tasks of combinator p have sent on its channel
SentTo(p) == Len(tasks[p].rcv) + Len(tasks[p].ch)

\* the tasks that stand at a send
AtSend == { p \in Tasks \ {Entry} : tasks[p].pc = "send" }

\* the decisions sent on the channel of a combinator never exceed the number
\* of its tasks
C20_AtMostN == \A p \in Tasks : SentTo(p) <= tasks[p].n

\* when Check has returned and the engine has no step left, no task stands
\* at a send
C20_NoneLeftAtSend == (returned /\ ~ENABLED Run) => AtSend = {}

\* C20: for a combinator started with N tasks, on a channel of capacity N,
\* the decisions sent on its channel never exceed N, so that every send
\* completes, also after the combinator has returned; no goroutine of a Check
\* that has returned stays blocked on a send.
C20_NoBlockedSend ==
    /\ C20_AtMostN
    /\ C20_NoneLeftAtSend

\* Check has returned, and a task stands for ever at the send of its second
\* decision: the buffer is full and the combinator above has returned
C20_BlockedForever ==
    /\ returned
    /\ \E p \in AtSend :
          /\ ~CanSend(p)
          /\ tasks[Parent(p)].ret
          /\ tasks[p].sent # <<>>
    /\ ~ENABLED Run


\* the same with the scope never canceled: Check has returned DepthError and
\* a leaf task stays at the send of its second decision
C20_BlockedUncanceled ==
    /\ C20_BlockedForever
    /\ ~canceled
    /\ result = sendDecision(FALSE, DepthError)

====
